---- MODULE Spec2Model ----
(***************************************************************************)
(* Model of arima.py, the ARIMA forecast command: argument parsing with    *)
(* the seasonal_order / seasonal_period pairing, the fetch of the grid,    *)
(* the season_offset computation and its validation, the export header,    *)
(* the per-series loop (fit, prediction, export rows) and the final show.  *)
(*                                                                         *)
(* Durations are whole seconds (an RRD step is a whole number of seconds), *)
(* so total_seconds(), // and % are exact integer operations here.         *)
(* Python's None is the empty tuple, an optional value x is <<x>>.         *)
(***************************************************************************)
EXTENDS Integers, Sequences, FiniteSets, TLC

\* ------------------------------------------------------------------ bounds
MaxSeries == 2
MaxObs == 2
MaxPeriodHours == 3

\* ----------------------------------------------------------- basic values
None == <<>>
Some(x) == <<x>>

Hour == 60 * 60
Day == 24 * Hour

\* seconds in one unit of a duration written "<n><unit>"
UnitSeconds(unit) ==
    CASE unit = "s" -> 1
      [] unit = "h" -> Hour
      [] unit = "d" -> Day

\* utils.timedelta_type: the duration a command-line string denotes
timedelta_type(d) == d.n * UnitSeconds(d.unit)

\* bool(timedelta): a zero-length duration is falsy, as is None
Truthy(opt) == opt # None /\ opt[1] # 0

Dur(n, unit) == [n |-> n, unit |-> unit]

\* 2024-01-01T00:00:00Z as an epoch
GridStart == 19723 * Day

SourceNames == <<"ds0", "ds1", "ds2", "ds3">>

HeaderLine == [kind |-> "header", text |-> "ds,timestamp,value"]

\* ------------------------------------------------------------------ inputs
\* How an option is written on the command line.  "exact": the token "-m" or
\* "--seasonal_period" (resp. "-R", "--seasonal_order") is an element of
\* sys.argv.  "attached": the option is given as "--seasonal_period=V", "-mV"
\* or an unambiguous prefix such as "--seasonal_p V", which argparse accepts
\* and which is not that element.  "absent": not given.
SeasonalPeriodInputs ==
    {Dur(0, "s"), Dur(24, "h"), Dur(25, "h"), Dur(1, "d")}
        \cup {Dur(k, "h") : k \in 1..MaxPeriodHours}

SeasonalPeriodOptions ==
    {[spelling |-> "absent", value |-> Dur(0, "s")]}
        \cup [spelling : {"exact", "attached"}, value : SeasonalPeriodInputs]
        \cup {[spelling |-> "attached", value |-> Dur(-1, "h")]}

SeasonalOrderOptions ==
    [spelling : {"absent", "exact", "attached"}, value : {<<1, 0, 1>>}]

Argv ==
    [order : {<<1, 0, 0>>},
     step : {None, Some(Dur(1, "h")), Some(Dur(2, "h"))},
     R : SeasonalOrderOptions,
     m : SeasonalPeriodOptions,
     forecast_period : {None, Some(Dur(2, "h"))},
     output_filename : BOOLEAN]

\* The RRD file: its native step, the number of rows a fetch of the window
\* returns, and the number of data sources (an RRD has at least one).
ScenarioRrd == [native |-> Hour, rows |-> 30 * 24, sources |-> 1]

Rrd ==
    [native : {Hour, 2 * Hour}, rows : 1..MaxObs, sources : 1..MaxSeries]
        \cup {ScenarioRrd}

VARIABLES argv, rrd, args, start, end, step, data, season_offset,
          pc, error, out, fitCalls, prediction, pos, nvalidate

vars == <<argv, rrd, args, start, end, step, data, season_offset,
          pc, error, out, fitCalls, prediction, pos, nvalidate>>

\* args before parse_args has run
NoArgs ==
    [order |-> None, step |-> None, seasonal_order |-> None,
     seasonal_period |-> None, forecast_period |-> 0,
     output_filename |-> FALSE]

Init ==
    /\ argv \in Argv
    /\ rrd \in Rrd
    /\ args = NoArgs
    /\ start = 0
    /\ end = 0
    /\ step = 0
    /\ data = <<>>
    /\ season_offset = 0
    /\ pc = "parse_args"
    /\ error = "none"
    /\ out = <<>>
    /\ fitCalls = <<>>
    /\ prediction = <<>>
    /\ pos = 0
    /\ nvalidate = 0

\* --------------------------------------------------------------- parse_args
\* required= of -R: "-m" in sys.argv or "--seasonal_period" in sys.argv
SeasonalOrderRequired(av) == av.m.spelling = "exact"

\* required= of -m: "-R" in sys.argv or "--seasonal_order" in sys.argv
SeasonalPeriodRequired(av) == av.R.spelling = "exact"

ParsedArgs(av) ==
    [order |-> av.order,
     step |-> IF av.step = None THEN None ELSE Some(timedelta_type(av.step[1])),
     seasonal_order |-> IF av.R.spelling = "absent" THEN None ELSE av.R.value,
     seasonal_period |->
         IF av.m.spelling = "absent" THEN None
         ELSE Some(timedelta_type(av.m.value)),
     forecast_period |->
         IF av.forecast_period = None THEN Day
         ELSE timedelta_type(av.forecast_period[1]),
     output_filename |-> av.output_filename]

ParseArgs ==
    /\ pc = "parse_args"
    /\ IF SeasonalOrderRequired(argv) /\ argv.R.spelling = "absent"
       THEN /\ pc' = "exit2"
            /\ error' = "seasonal_order required"
            /\ args' = args
       ELSE IF SeasonalPeriodRequired(argv) /\ argv.m.spelling = "absent"
       THEN /\ pc' = "exit2"
            /\ error' = "seasonal_period required"
            /\ args' = args
       ELSE /\ pc' = "rrd_fetch"
            /\ args' = ParsedArgs(argv)
            /\ error' = error
    /\ UNCHANGED <<argv, rrd, start, end, step, data, season_offset,
                   out, fitCalls, prediction, pos, nvalidate>>

\* ---------------------------------------------------------------- rrd_fetch
\* rrd.rrd_fetch: the resolved grid and the series of the file.  The source
\* may coarsen the requested step: the resolved step is the native step, or
\* the smallest multiple of it that is at least the requested one.
rrd_fetch(file, a) ==
    LET st == IF a.step = None \/ a.step[1] <= file.native
              THEN file.native
              ELSE file.native * ((a.step[1] + file.native - 1) \div file.native)
    IN [start |-> GridStart,
        end |-> GridStart + file.rows * st,
        step |-> st,
        data |-> SubSeq(SourceNames, 1, file.sources)]

\* mutant: the requested step is kept when one was given
BoundStep_Requested(a, r) == IF a.step = None THEN r.step ELSE a.step[1]

\* the step bound by "start, end, step, data = rrd_fetch(...)"
BoundStep(a, r) == r.step

Fetch ==
    /\ pc = "rrd_fetch"
    /\ LET r == rrd_fetch(rrd, args) IN
        /\ start' = r.start
        /\ end' = r.end
        /\ step' = BoundStep(args, r)
        /\ data' = r.data
    /\ pc' = "season_offset"
    /\ UNCHANGED <<argv, rrd, args, season_offset, error, out, fitCalls,
                   prediction, pos, nvalidate>>

\* ------------------------------------------------- season_offset, validation
\* int(seasonal_period.total_seconds() // step.total_seconds())
\*     if args.seasonal_period else 0
SeasonOffset(sp, st) == IF Truthy(sp) THEN sp[1] \div st ELSE 0

ResolveOffset ==
    /\ pc = "season_offset"
    /\ season_offset' = SeasonOffset(args.seasonal_period, step)
    /\ pc' = "validate"
    /\ UNCHANGED <<argv, rrd, args, start, end, step, data, error, out,
                   fitCalls, prediction, pos, nvalidate>>

\* mutant: an offset of exactly 2 is refused as well
TooShort_AtMostTwo(sp, off) == Truthy(sp) /\ off <= 2

\* if args.seasonal_period and season_offset < 2
TooShort(sp, off) == Truthy(sp) /\ off < 2

\* mutant: the remainder test is made on the floored quotient
NotMultiple_Floored(sp, st) == ((sp[1] \div st) * st) % st # 0

\* elif args.seasonal_period.total_seconds() % step.total_seconds() != 0
NotMultiple(sp, st) == sp[1] % st # 0

Validate ==
    /\ pc = "validate"
    /\ nvalidate' = nvalidate + 1
    /\ IF TooShort(args.seasonal_period, season_offset)
       THEN /\ pc' = "exit2"
            /\ error' = "seasonal period is too short"
       ELSE IF args.seasonal_period = None
       THEN \* None has no total_seconds
            /\ pc' = "exception"
            /\ error' = "AttributeError"
       ELSE IF NotMultiple(args.seasonal_period, step)
       THEN /\ pc' = "exit2"
            /\ error' = "seasonal period is not a multiple of the step"
       ELSE /\ pc' = "header"
            /\ error' = error
    /\ UNCHANGED <<argv, rrd, args, start, end, step, data, season_offset,
                   out, fitCalls, prediction, pos>>

\* ------------------------------------------------------------ export header
WriteHeader ==
    /\ pc = "header"
    /\ out' = IF args.output_filename THEN Append(out, HeaderLine) ELSE out
    /\ pos' = 1
    /\ pc' = IF Len(data) = 0 THEN "show" ELSE "loop"
    /\ UNCHANGED <<argv, rrd, args, start, end, step, data, season_offset,
                   error, fitCalls, prediction, nvalidate>>

\* ---------------------------------------------------------- per-series loop
\* mutant: the seasonal branch is taken only above the smallest valid offset
SeasonalMode_AboveTwo(off) == off > 2

\* the branch of the fit: "if season_offset > 0"
SeasonalMode(off) == off > 0

\* the ARIMA(...) call of one series
FitCall(source, a, off) ==
    IF SeasonalMode(off)
    THEN [source |-> source, mode |-> "seasonal", order |-> a.order,
          seasonal_order |-> a.seasonal_order \o <<off>>]
    ELSE [source |-> source, mode |-> "plain", order |-> a.order,
          seasonal_order |-> None]

\* mutant: the last step is not taken off
PredictionEnd_Inclusive(e, fp, st) == e + fp

\* end=end + args.forecast_period - step
PredictionEnd(e, fp, st) == e + fp - st

\* the index of fit.get_prediction(start=s, end=stop): the timestamps of the
\* grid from s through stop, both included
PredictionIndex(s, stop, st) ==
    [k \in 1..((stop - s) \div st + 1) |-> s + (k - 1) * st]

\* mutant: the header is printed inside the loop, before each series' rows
ExportRows_WithHeader(source, index) ==
    <<HeaderLine>> \o
        [k \in 1..Len(index) |->
            [kind |-> "row", ds |-> source, timestamp |-> index[k],
             value |-> <<source, k>>]]

\* for dt, value in prediction.items(): print(f"{source},{int(dt.timestamp())},{value}")
ExportRows(source, index) ==
    [k \in 1..Len(index) |->
        [kind |-> "row", ds |-> source, timestamp |-> index[k],
         value |-> <<source, k>>]]

ProcessSeries ==
    /\ pc = "loop"
    /\ LET source == data[pos] IN
        IF SeasonalMode(season_offset) /\ args.seasonal_order = None
        THEN \* None + [season_offset]
             /\ pc' = "exception"
             /\ error' = "TypeError"
             /\ UNCHANGED <<out, fitCalls, prediction, pos>>
        ELSE \E converged \in BOOLEAN :
             /\ fitCalls' = Append(fitCalls, FitCall(source, args, season_offset))
             /\ IF ~converged
                THEN /\ pc' = "exception"
                     /\ error' = "FitError"
                     /\ UNCHANGED <<out, prediction, pos>>
                ELSE LET index == PredictionIndex(start,
                                      PredictionEnd(end, args.forecast_period, step),
                                      step)
                     IN /\ prediction' = index
                        /\ out' = IF args.output_filename
                                  THEN out \o ExportRows(source, index)
                                  ELSE out
                        /\ pos' = pos + 1
                        /\ pc' = IF pos + 1 > Len(data) THEN "show" ELSE "loop"
                        /\ error' = error
    /\ UNCHANGED <<argv, rrd, args, start, end, step, data, season_offset,
                   nvalidate>>

\* plt.show()
Show ==
    /\ pc = "show"
    /\ pc' = "done"
    /\ UNCHANGED <<argv, rrd, args, start, end, step, data, season_offset,
                   error, out, fitCalls, prediction, pos, nvalidate>>

Next ==
    \/ ParseArgs
    \/ Fetch
    \/ ResolveOffset
    \/ Validate
    \/ WriteHeader
    \/ ProcessSeries
    \/ Show

Spec == Init /\ [][Next]_vars

\* ------------------------------------------------------------------ claims
Terminal == {"done", "exit2", "exception"}

PastValidation == {"header", "loop", "show", "done", "exception"}

\* C1: when no seasonal_period is supplied, season_offset is 0, validation
\* raises nothing and the run goes on to the non-seasonal fits.
C1_NoSeasonalPeriodProceeds ==
    (argv.m.spelling = "absent" /\ argv.R.spelling = "absent" /\ nvalidate = 1)
        => /\ season_offset = 0
           /\ pc # "exit2"
           /\ error # "AttributeError"

\* C2: a fit failure on one series does not abort the run: when a run with
\* well-formed seasonal arguments has ended after a failed fit, every series
\* of the batch has been handed to the fitter.
C2_FitFailureIsolated ==
    (pc \in Terminal /\ error = "FitError"
        /\ args.seasonal_order # None /\ season_offset >= 2)
        => \A i \in 1..Len(data) :
               \E k \in 1..Len(fitCalls) : fitCalls[k].source = data[i]

\* C3: every supplied seasonal_period with seasonal_period / step < 2, a
\* zero-length one included, is rejected with a configuration error and no
\* series is fitted.
C3_ShortPeriodRejected ==
    (nvalidate = 1 /\ args.seasonal_period # None
        /\ args.seasonal_order # None
        /\ args.seasonal_period[1] < 2 * step)
        => pc = "exit2" /\ fitCalls = <<>>

\* C4: every supplied seasonal_period that is not an exact multiple of the
\* resolved step is rejected with a configuration error, also when the
\* floored offset is at least 2; nothing is fitted with the floored offset.
C4_NonMultipleRejected ==
    (nvalidate = 1 /\ args.seasonal_period # None
        /\ args.seasonal_period[1] % step # 0)
        => pc = "exit2" /\ fitCalls = <<>> /\ out = <<>>

C4_Witness ==
    /\ pc = "exit2"
    /\ args.seasonal_period = Some(25 * Hour)
    /\ step = 2 * Hour
    /\ season_offset = 12
    /\ error = "seasonal period is not a multiple of the step"

\* C5: a seasonal_period that is an exact multiple of the step, at least twice
\* the step, passes validation, and season_offset is exactly
\* seasonal_period / step.
C5_ExactMultipleAccepted ==
    (nvalidate = 1 /\ args.seasonal_period # None
        /\ args.seasonal_period[1] % step = 0
        /\ args.seasonal_period[1] >= 2 * step)
        => /\ pc \in PastValidation
           /\ error \notin {"seasonal period is too short",
                            "seasonal period is not a multiple of the step",
                            "AttributeError"}
           /\ season_offset * step = args.seasonal_period[1]

C5_Witness ==
    /\ pc = "header"
    /\ argv.m.value = Dur(1, "d")
    /\ args.seasonal_period = Some(24 * Hour)
    /\ step = Hour
    /\ season_offset = 24

\* C6: a run with a seasonal period and no seasonal order is rejected with a
\* configuration error before any fitting, whatever the spelling of the
\* option; it never reaches the seasonal fit.
C6_UnpairedPeriodRejected ==
    (args.seasonal_period # None /\ args.seasonal_order = None
        /\ season_offset > 0 /\ pc \in Terminal)
        => pc = "exit2" /\ fitCalls = <<>>

IsScenario ==
    /\ start = GridStart
    /\ end = GridStart + 30 * Day
    /\ step = Hour
    /\ args.forecast_period = Day

PredictionDomainShape ==
    /\ prediction[1] = start
    /\ prediction[Len(prediction)] = end + args.forecast_period - step
    /\ \A k \in 1..(Len(prediction) - 1) : prediction[k + 1] = prediction[k] + step

\* C7 as stated: the point-forecast domain is the step-spaced timestamps from
\* start through end + forecast_period - step, and the scenario of 30 days at
\* one hour with a forecast of one day has 745 points.
C7_DomainHas745Points ==
    prediction # <<>>
        => /\ PredictionDomainShape
           /\ IsScenario => Len(prediction) = 745

\* C7 amended: the point-forecast domain is the step-spaced timestamps from
\* start through end + forecast_period - step, and the scenario of 30 days at
\* one hour with a forecast of one day has 744 points.
C7_DomainHas744Points ==
    prediction # <<>>
        => /\ PredictionDomainShape
           /\ IsScenario => Len(prediction) = 744

C7_Witness ==
    /\ IsScenario
    /\ Len(prediction) = 744
    /\ prediction[744] = GridStart + 30 * Day + 23 * Hour

\* number of timestamps from start through end + forecast_period - step
DomainSize == (end + args.forecast_period - step - start) \div step + 1

\* C8: with export requested the file holds the header once, first, then for
\* each series processed one row per timestamp of the point-forecast domain,
\* in chronological order and within [start, end + forecast_period - step];
\* without export nothing is written.
C8_ExportShape ==
    /\ ~args.output_filename => out = <<>>
    /\ (args.output_filename /\ pos >= 1)
        => /\ Len(out) = 1 + DomainSize * (pos - 1)
           /\ out[1] = HeaderLine
           /\ \A k \in 2..Len(out) :
                 /\ out[k].kind = "row"
                 /\ out[k].ds = data[(k - 2) \div DomainSize + 1]
                 /\ out[k].timestamp >= start
                 /\ out[k].timestamp <= end + args.forecast_period - step
           /\ \A k \in 2..(Len(out) - 1) :
                 out[k].ds = out[k + 1].ds
                     => out[k].timestamp < out[k + 1].timestamp
    /\ (args.output_filename /\ pc \in {"show", "done"})
        => Len(out) = 1 + DomainSize * Len(data)

C8_Witness ==
    /\ pc = "done"
    /\ args.output_filename
    /\ Len(data) = 2
    /\ Len(out) = 1 + 2 * DomainSize
    /\ DomainSize > 1

\* the verdict of the seasonal validation for step st
Rejects(sp, st) == sp[1] \div st < 2 \/ sp[1] % st # 0

\* C9: validation runs once, before the loop, against the step the data
\* source returned; a run that ends in a configuration error has fitted no
\* series and written no header and no row.
C9_ConfigErrorBeforeFitting ==
    /\ nvalidate <= 1
    /\ (pc \in {"header", "loop", "show", "done"} \/ fitCalls # <<>> \/ out # <<>>)
        => nvalidate = 1
    /\ pc = "exit2" => fitCalls = <<>> /\ out = <<>> /\ pos = 0
    /\ (nvalidate = 1 /\ Truthy(args.seasonal_period))
        => (pc = "exit2"
               <=> Rejects(args.seasonal_period, rrd_fetch(rrd, args).step))

C9_Witness ==
    /\ pc = "exit2"
    /\ nvalidate = 1
    /\ args.step # None
    /\ args.step[1] # rrd_fetch(rrd, args).step
    /\ ~Rejects(args.seasonal_period, args.step[1])

\* C10: every fit of a validated run is seasonal exactly when
\* season_offset > 0, its seasonal order is then the user's (P, D, Q)
\* followed by season_offset, the same for every series, and the user's
\* triple is left as parsed.
C10_FitMode ==
    /\ Len(fitCalls) > 0 => args.seasonal_order \in {None, argv.R.value}
    /\ \A k \in 1..Len(fitCalls) :
          /\ fitCalls[k].source = data[k]
          /\ fitCalls[k].order = argv.order
          /\ fitCalls[k].mode = "seasonal" <=> season_offset > 0
          /\ fitCalls[k].mode = "seasonal"
                => fitCalls[k].seasonal_order = argv.R.value \o <<season_offset>>
          /\ fitCalls[k].mode = "plain" => fitCalls[k].seasonal_order = None

C10_Witness ==
    /\ Len(fitCalls) = 2
    /\ season_offset = 2
    /\ fitCalls[1].mode = "seasonal"
    /\ fitCalls[2].seasonal_order = <<1, 0, 1, 2>>
====
